---- MODULE Spec2Model ----
(***************************************************************************)
(* RectTransformationCalculator                                            *)
(* (mediapipe/calculators/util/rect_transformation_calculator.cc).         *)
(*                                                                         *)
(* Numbers.  Lengths, shifts and scales are exact rationals <<n, d>> with   *)
(* d > 0 in lowest terms, so products and quotients are computed exactly    *)
(* (float rounding is not modelled).  Angles are integers counted in ticks  *)
(* of 30 degrees, so that M_PI is 6 ticks; cos and sin are taken only at    *)
(* multiples of a quarter turn, where they are exactly -1, 0 or 1.          *)
(***************************************************************************)
EXTENDS Integers, Sequences, FiniteSets, TLC

VARIABLES
    wiring,     \* which input tags the graph config wires to the node
    cfg,        \* the RectTransformationCalculatorOptions of the graph config
    status,     \* lifecycle position of the node
    out_type,   \* packet type declared for output 0 by GetContract
    options_,   \* the member options_
    inputs,     \* input packet sets handed to Process, one per timestamp
    outputs,    \* packets added to output stream 0
    angle,      \* argument of NormalizeRadians (SpecWrap only)
    wrapped     \* <<result>> of NormalizeRadians once applied (SpecWrap only)

vars == <<wiring, cfg, status, out_type, options_, inputs, outputs, angle, wrapped>>

-----------------------------------------------------------------------------
(* Bounds *)

MaxTs == 2
MaxAngle == 30

-----------------------------------------------------------------------------
(* Exact rational arithmetic standing for float arithmetic *)

Abs(i) == IF i < 0 THEN -i ELSE i

RECURSIVE GCD(_, _)
GCD(a, b) == IF b = 0 THEN a ELSE GCD(b, a % b)

Q(n, d) ==
    LET s == IF d < 0 THEN -1 ELSE 1
        g == GCD(Abs(n), Abs(d))
    IN  <<(s * n) \div g, (s * d) \div g>>

FromInt(i) == <<i, 1>>
RAdd(a, b) == Q(a[1] * b[2] + b[1] * a[2], a[2] * b[2])
RSub(a, b) == Q(a[1] * b[2] - b[1] * a[2], a[2] * b[2])
RMul(a, b) == Q(a[1] * b[1], a[2] * b[2])
RDiv(a, b) == Q(a[1] * b[2], a[2] * b[1])
RLess(a, b) == a[1] * b[2] < b[1] * a[2]
\* std::max(a, b) is (a < b) ? b : a; std::min(a, b) is (b < a) ? b : a
RMax(a, b) == IF RLess(a, b) THEN b ELSE a
RMin(a, b) == IF RLess(b, a) THEN b ELSE a

-----------------------------------------------------------------------------
(* Angles *)

M_PI == 6

\* std::cos and std::sin at multiples of a quarter turn
Cos(t) ==
    CASE t % (2 * M_PI) = 0 -> 1
      [] t % (2 * M_PI) = M_PI \div 2 -> 0
      [] t % (2 * M_PI) = M_PI -> -1
      [] t % (2 * M_PI) = 3 * (M_PI \div 2) -> 0

Sin(t) ==
    CASE t % (2 * M_PI) = 0 -> 0
      [] t % (2 * M_PI) = M_PI \div 2 -> 1
      [] t % (2 * M_PI) = M_PI -> 0
      [] t % (2 * M_PI) = 3 * (M_PI \div 2) -> -1

\* variant: the half-turn offset inside the floor is left out
NormalizeRadians_NoOffset(a) == a - 2 * M_PI * (a \div (2 * M_PI))

\* angle - 2 * M_PI * std::floor((angle - (-M_PI)) / (2 * M_PI))
NormalizeRadians(a) == a - 2 * M_PI * ((a - (-M_PI)) \div (2 * M_PI))

-----------------------------------------------------------------------------
(* Values the graph can supply *)

Rect(x, y, w, h, r) ==
    [x_center |-> x, y_center |-> y, width |-> w, height |-> h, rotation |-> r]

Rects ==
    { Rect(Q(1, 2), Q(1, 2), Q(1, 5), Q(1, 10), 0),
      Rect(Q(1, 2), Q(1, 2), Q(1, 5), Q(1, 10), 3),
      Rect(Q(1, 2), Q(1, 2), Q(0, 1), Q(1, 2), -3),
      Rect(Q(1, 4), Q(3, 4), Q(1, 4), Q(1, 2), 0) }

ImageSizes == { <<100, 50>>, <<50, 50>> }

EmptyPacket == [empty |-> TRUE, value |-> <<>>]
MakePacket(v) == [empty |-> FALSE, value |-> v]

RectPackets == { MakePacket(r) : r \in Rects } \cup { EmptyPacket }
SizePackets == { MakePacket(s) : s \in ImageSizes } \cup { EmptyPacket }

RotationChoices ==
    { [has_rotation |-> FALSE, rotation |-> 0,
       has_rotation_degrees |-> FALSE, rotation_degrees |-> 0],
      [has_rotation |-> TRUE, rotation |-> 3,
       has_rotation_degrees |-> FALSE, rotation_degrees |-> 0],
      [has_rotation |-> TRUE, rotation |-> 9,
       has_rotation_degrees |-> FALSE, rotation_degrees |-> 0],
      [has_rotation |-> FALSE, rotation |-> 0,
       has_rotation_degrees |-> TRUE, rotation_degrees |-> 90],
      [has_rotation |-> TRUE, rotation |-> 3,
       has_rotation_degrees |-> TRUE, rotation_degrees |-> 90] }

SquareChoices ==
    { [has_square_long |-> FALSE, square_long |-> FALSE,
       has_square_short |-> FALSE, square_short |-> FALSE],
      [has_square_long |-> TRUE, square_long |-> TRUE,
       has_square_short |-> FALSE, square_short |-> FALSE],
      [has_square_long |-> TRUE, square_long |-> FALSE,
       has_square_short |-> FALSE, square_short |-> FALSE],
      [has_square_long |-> FALSE, square_long |-> FALSE,
       has_square_short |-> TRUE, square_short |-> TRUE],
      [has_square_long |-> TRUE, square_long |-> TRUE,
       has_square_short |-> TRUE, square_short |-> TRUE],
      [has_square_long |-> TRUE, square_long |-> FALSE,
       has_square_short |-> TRUE, square_short |-> FALSE] }

ShiftScaleChoices ==
    { [shift_x |-> Q(0, 1), shift_y |-> Q(0, 1),
       scale_x |-> Q(1, 1), scale_y |-> Q(1, 1)],
      [shift_x |-> Q(1, 2), shift_y |-> Q(1, 1),
       scale_x |-> Q(2, 1), scale_y |-> Q(3, 2)] }

MakeOptions(rot, sq, ss) ==
    [has_rotation |-> rot.has_rotation, rotation |-> rot.rotation,
     has_rotation_degrees |-> rot.has_rotation_degrees,
     rotation_degrees |-> rot.rotation_degrees,
     has_square_long |-> sq.has_square_long, square_long |-> sq.square_long,
     has_square_short |-> sq.has_square_short, square_short |-> sq.square_short,
     shift_x |-> ss.shift_x, shift_y |-> ss.shift_y,
     scale_x |-> ss.scale_x, scale_y |-> ss.scale_y]

OptionsChoices ==
    { MakeOptions(rot, sq, ss) :
        rot \in RotationChoices, sq \in SquareChoices, ss \in ShiftScaleChoices }

\* a default-constructed options message
DefaultOptions ==
    [has_rotation |-> FALSE, rotation |-> 0,
     has_rotation_degrees |-> FALSE, rotation_degrees |-> 0,
     has_square_long |-> FALSE, square_long |-> FALSE,
     has_square_short |-> FALSE, square_short |-> FALSE,
     shift_x |-> Q(0, 1), shift_y |-> Q(0, 1),
     scale_x |-> Q(1, 1), scale_y |-> Q(1, 1)]

Wirings == [RECT : BOOLEAN, NORM_RECT : BOOLEAN, IMAGE_SIZE : BOOLEAN]

-----------------------------------------------------------------------------
(* The transformation *)

\* variant: rotation_degrees is added without the conversion to radians
ComputeNewRotation_NoConversion(rotation, o) ==
    LET r == IF o.has_rotation
                THEN rotation + o.rotation
                ELSE IF o.has_rotation_degrees
                        THEN rotation + o.rotation_degrees
                        ELSE rotation
    IN  NormalizeRadians(r)

ComputeNewRotation(rotation, o) ==
    LET r == IF o.has_rotation
                THEN rotation + o.rotation
                ELSE IF o.has_rotation_degrees
                        THEN rotation + (M_PI * o.rotation_degrees) \div 180
                        ELSE rotation
    IN  NormalizeRadians(r)

\* variant: the sides are scaled first and squared afterwards
TransformRect_ScaleFirst(rect, o) ==
    LET width == rect.width
        height == rect.height
        rotation == IF o.has_rotation \/ o.has_rotation_degrees
                       THEN ComputeNewRotation(rect.rotation, o)
                       ELSE rect.rotation
        c == FromInt(Cos(rotation))
        s == FromInt(Sin(rotation))
        x_shift == RSub(RMul(RMul(width, o.shift_x), c),
                        RMul(RMul(height, o.shift_y), s))
        y_shift == RAdd(RMul(RMul(width, o.shift_x), s),
                        RMul(RMul(height, o.shift_y), c))
        sw == RMul(width, o.scale_x)
        sh == RMul(height, o.scale_y)
    IN  [rect EXCEPT !.x_center = RAdd(rect.x_center, x_shift),
                     !.y_center = RAdd(rect.y_center, y_shift),
                     !.width = IF o.square_long THEN RMax(sw, sh)
                               ELSE IF o.square_short THEN RMin(sw, sh) ELSE sw,
                     !.height = IF o.square_long THEN RMax(sw, sh)
                                ELSE IF o.square_short THEN RMin(sw, sh) ELSE sh]

TransformRect(rect, o) ==
    LET width == rect.width
        height == rect.height
        rotation == IF o.has_rotation \/ o.has_rotation_degrees
                       THEN ComputeNewRotation(rect.rotation, o)
                       ELSE rect.rotation
        c == FromInt(Cos(rotation))
        s == FromInt(Sin(rotation))
        x_shift == RSub(RMul(RMul(width, o.shift_x), c),
                        RMul(RMul(height, o.shift_y), s))
        y_shift == RAdd(RMul(RMul(width, o.shift_x), s),
                        RMul(RMul(height, o.shift_y), c))
        x_center == IF rotation = 0
                       THEN RAdd(rect.x_center, RMul(width, o.shift_x))
                       ELSE RAdd(rect.x_center, x_shift)
        y_center == IF rotation = 0
                       THEN RAdd(rect.y_center, RMul(height, o.shift_y))
                       ELSE RAdd(rect.y_center, y_shift)
        long_side == RMax(width, height)
        short_side == RMin(width, height)
        width2 == IF o.square_long THEN long_side
                  ELSE IF o.square_short THEN short_side ELSE width
        height2 == IF o.square_long THEN long_side
                   ELSE IF o.square_short THEN short_side ELSE height
    IN  [rect EXCEPT !.x_center = x_center,
                     !.y_center = y_center,
                     !.width = RMul(width2, o.scale_x),
                     !.height = RMul(height2, o.scale_y)]

\* variant: the sides are squared as raw normalized values, as TransformRect does
TransformNormalizedRect_RawSquare(rect, image_width, image_height, o) ==
    LET width == rect.width
        height == rect.height
        iw == FromInt(image_width)
        ih == FromInt(image_height)
        rotation == IF o.has_rotation \/ o.has_rotation_degrees
                       THEN ComputeNewRotation(rect.rotation, o)
                       ELSE rect.rotation
        c == FromInt(Cos(rotation))
        s == FromInt(Sin(rotation))
        x_shift == RDiv(RSub(RMul(RMul(RMul(iw, width), o.shift_x), c),
                             RMul(RMul(RMul(ih, height), o.shift_y), s)), iw)
        y_shift == RDiv(RAdd(RMul(RMul(RMul(iw, width), o.shift_x), s),
                             RMul(RMul(RMul(ih, height), o.shift_y), c)), ih)
        width2 == IF o.square_long THEN RMax(width, height)
                  ELSE IF o.square_short THEN RMin(width, height) ELSE width
        height2 == IF o.square_long THEN RMax(width, height)
                   ELSE IF o.square_short THEN RMin(width, height) ELSE height
    IN  [rect EXCEPT !.x_center = RAdd(rect.x_center, x_shift),
                     !.y_center = RAdd(rect.y_center, y_shift),
                     !.width = RMul(width2, o.scale_x),
                     !.height = RMul(height2, o.scale_y)]

TransformNormalizedRect(rect, image_width, image_height, o) ==
    LET width == rect.width
        height == rect.height
        iw == FromInt(image_width)
        ih == FromInt(image_height)
        rotation == IF o.has_rotation \/ o.has_rotation_degrees
                       THEN ComputeNewRotation(rect.rotation, o)
                       ELSE rect.rotation
        c == FromInt(Cos(rotation))
        s == FromInt(Sin(rotation))
        x_shift == RDiv(RSub(RMul(RMul(RMul(iw, width), o.shift_x), c),
                             RMul(RMul(RMul(ih, height), o.shift_y), s)), iw)
        y_shift == RDiv(RAdd(RMul(RMul(RMul(iw, width), o.shift_x), s),
                             RMul(RMul(RMul(ih, height), o.shift_y), c)), ih)
        x_center == IF rotation = 0
                       THEN RAdd(rect.x_center, RMul(width, o.shift_x))
                       ELSE RAdd(rect.x_center, x_shift)
        y_center == IF rotation = 0
                       THEN RAdd(rect.y_center, RMul(height, o.shift_y))
                       ELSE RAdd(rect.y_center, y_shift)
        long_side == RMax(RMul(width, iw), RMul(height, ih))
        short_side == RMin(RMul(width, iw), RMul(height, ih))
        width2 == IF o.square_long THEN RDiv(long_side, iw)
                  ELSE IF o.square_short THEN RDiv(short_side, iw) ELSE width
        height2 == IF o.square_long THEN RDiv(long_side, ih)
                   ELSE IF o.square_short THEN RDiv(short_side, ih) ELSE height
    IN  [rect EXCEPT !.x_center = x_center,
                     !.y_center = y_center,
                     !.width = RMul(width2, o.scale_x),
                     !.height = RMul(height2, o.scale_y)]

-----------------------------------------------------------------------------
(* Setup checks *)

\* variant: the exclusive or of the first check is an inclusive or
ContractOk_InclusiveOr(w) ==
    /\ w.NORM_RECT \/ w.RECT
    /\ w.NORM_RECT => w.IMAGE_SIZE

\* RET_CHECK(HasTag(NORM_RECT) ^ HasTag(RECT)); RET_CHECK(HasTag(IMAGE_SIZE))
ContractOk(w) ==
    /\ (w.NORM_RECT /\ ~w.RECT) \/ (~w.NORM_RECT /\ w.RECT)
    /\ w.NORM_RECT => w.IMAGE_SIZE

ContractOutputType(w) ==
    IF ~((w.NORM_RECT /\ ~w.RECT) \/ (~w.NORM_RECT /\ w.RECT)) THEN "unset"
    ELSE IF w.RECT THEN "Rect"
    ELSE IF w.IMAGE_SIZE THEN "NormalizedRect" ELSE "unset"

\* variant: the square check reads the option values, not their presence
OpenOk_SquareValues(o) ==
    /\ ~(o.has_rotation /\ o.has_rotation_degrees)
    /\ ~(o.square_long /\ o.square_short)

OpenOk(o) ==
    /\ ~(o.has_rotation /\ o.has_rotation_degrees)
    /\ ~(o.has_square_long /\ o.has_square_short)

\* variant: the rotation of the record is folded into the stored options
OptionsAfterProcess_Accumulate(o, rect) ==
    [o EXCEPT !.rotation = NormalizeRadians(o.rotation + rect.rotation)]

\* Process has no statement that assigns options_
OptionsAfterProcess(o, rect) == o

\* Get<std::pair<int, int>>() on the IMAGE_SIZE packet, read with no IsEmpty
\* test: an empty packet holds no value to return
GetFails(packet) == packet.empty

\* the framework calls Process only on a node whose Open returned OK
CanProcess == status = "opened"

-----------------------------------------------------------------------------
(* The node *)

Init ==
    /\ wiring \in Wirings
    /\ cfg \in OptionsChoices
    /\ status = "constructed"
    /\ out_type = "unset"
    /\ options_ = DefaultOptions
    /\ inputs = <<>>
    /\ outputs = <<>>
    /\ angle = 0
    /\ wrapped = <<>>

GetContract ==
    /\ status = "constructed"
    /\ status' = IF ContractOk(wiring) THEN "contract_ok" ELSE "contract_failed"
    /\ out_type' = ContractOutputType(wiring)
    /\ UNCHANGED <<wiring, cfg, options_, inputs, outputs, angle, wrapped>>

Open ==
    /\ status = "contract_ok"
    /\ options_' = cfg
    /\ status' = IF OpenOk(cfg) THEN "opened" ELSE "open_failed"
    /\ UNCHANGED <<wiring, cfg, out_type, inputs, outputs, angle, wrapped>>

Process(rect_packet, norm_rect_packet, image_size_packet) ==
    /\ CanProcess
    /\ Len(inputs) < MaxTs
    /\ ~wiring.RECT => rect_packet.empty
    /\ ~wiring.NORM_RECT => norm_rect_packet.empty
    /\ ~wiring.IMAGE_SIZE => image_size_packet.empty
    /\ LET ts == Len(inputs) + 1
           first == IF wiring.RECT /\ ~rect_packet.empty
                       THEN << [type |-> "Rect", timestamp |-> ts,
                                value |-> TransformRect(rect_packet.value, options_)] >>
                       ELSE <<>>
           reads == wiring.NORM_RECT /\ ~norm_rect_packet.empty
           fatal == reads /\ GetFails(image_size_packet)
           second == IF reads /\ ~fatal
                        THEN << [type |-> "NormalizedRect", timestamp |-> ts,
                                 value |-> TransformNormalizedRect(
                                              norm_rect_packet.value,
                                              image_size_packet.value[1],
                                              image_size_packet.value[2],
                                              options_)] >>
                        ELSE <<>>
           seen == IF reads THEN norm_rect_packet.value
                   ELSE IF ~rect_packet.empty THEN rect_packet.value
                   ELSE Rect(Q(0, 1), Q(0, 1), Q(0, 1), Q(0, 1), 0)
       IN  /\ inputs' = Append(inputs, [RECT |-> rect_packet,
                                        NORM_RECT |-> norm_rect_packet,
                                        IMAGE_SIZE |-> image_size_packet])
           /\ outputs' = outputs \o first \o second
           /\ status' = IF fatal THEN "crashed" ELSE status
           /\ options_' = OptionsAfterProcess(options_, seen)
    /\ UNCHANGED <<wiring, cfg, out_type, angle, wrapped>>

Next ==
    \/ GetContract
    \/ Open
    \/ \E rp \in RectPackets, np \in RectPackets, sp \in SizePackets :
          Process(rp, np, sp)

Spec == Init /\ [][Next]_vars

-----------------------------------------------------------------------------
(* NormalizeRadians on its own, over a grid of angles *)

InitWrap ==
    /\ wiring = [RECT |-> FALSE, NORM_RECT |-> FALSE, IMAGE_SIZE |-> FALSE]
    /\ cfg = DefaultOptions
    /\ status = "constructed"
    /\ out_type = "unset"
    /\ options_ = DefaultOptions
    /\ inputs = <<>>
    /\ outputs = <<>>
    /\ angle \in (-MaxAngle) .. MaxAngle
    /\ wrapped = <<>>

Wrap ==
    /\ wrapped = <<>>
    /\ wrapped' = <<NormalizeRadians(angle)>>
    /\ UNCHANGED <<wiring, cfg, status, out_type, options_, inputs, outputs, angle>>

NextWrap == Wrap

SpecWrap == InitWrap /\ [][NextWrap]_vars

-----------------------------------------------------------------------------
(* Vocabulary of the properties *)

RotationSet(o) == o.has_rotation \/ o.has_rotation_degrees

\* the configured delta in radians: pi * degrees / 180 for the degrees option
Delta(o) ==
    IF o.has_rotation THEN o.rotation ELSE (M_PI * o.rotation_degrees) \div 180

\* the rectangle that was on the wired rectangle input at the packet's timestamp
SourceRect(p) ==
    IF p.type = "Rect" THEN inputs[p.timestamp].RECT.value
    ELSE inputs[p.timestamp].NORM_RECT.value

SourceSize(p) == inputs[p.timestamp].IMAGE_SIZE.value

\* the rotation the shift is taken along
EffectiveRotation(p) ==
    IF RotationSet(options_)
       THEN NormalizeRadians(SourceRect(p).rotation + Delta(options_))
       ELSE SourceRect(p).rotation

Zero == Q(0, 1)
One == Q(1, 1)

RectRecordPresent(t) == ~inputs[t].RECT.empty \/ ~inputs[t].NORM_RECT.empty

-----------------------------------------------------------------------------
(* C1: when a rotation option is set with delta d, the rotation field of     *)
(* every emitted rectangle equals wrap(r + d), r being the rotation of the   *)
(* input rectangle, in the absolute and in the normalized variant.           *)
C1_OutputRotationIsWrappedSum ==
    \A i \in DOMAIN outputs :
        RotationSet(options_) =>
            outputs[i].value.rotation =
                NormalizeRadians(SourceRect(outputs[i]).rotation + Delta(options_))

(* C2: Open fails exactly when both rotation options or both square options  *)
(* are present, and after a failed Open no record is processed and no packet *)
(* is emitted.                                                               *)
C2_OpenFailsExactlyOnConflict ==
    /\ status \in {"opened", "crashed", "open_failed"} =>
          ((status = "open_failed") <=>
              \/ cfg.has_rotation /\ cfg.has_rotation_degrees
              \/ cfg.has_square_long /\ cfg.has_square_short)
    /\ status = "open_failed" => inputs = <<>> /\ outputs = <<>>

C2_Witness ==
    /\ status = "open_failed"
    /\ cfg.has_square_long /\ cfg.has_square_short
    /\ ~cfg.square_long /\ ~cfg.square_short
    /\ ~(cfg.has_rotation /\ cfg.has_rotation_degrees)

(* C3: GetContract succeeds iff exactly one of RECT and NORM_RECT is wired   *)
(* and NORM_RECT comes with IMAGE_SIZE; on success output 0 is declared with *)
(* the rectangle kind of the wired input.                                    *)
C3_ContractExactlyOneRectKind ==
    status # "constructed" =>
        LET n == Cardinality({ t \in {"RECT", "NORM_RECT"} : wiring[t] })
            ok == n = 1 /\ (wiring.NORM_RECT => wiring.IMAGE_SIZE)
        IN  /\ (status # "contract_failed") <=> ok
            /\ ok => out_type = IF wiring.RECT THEN "Rect" ELSE "NormalizedRect"
            /\ ~ok => out_type = "unset"

C3_Witness ==
    /\ status = "contract_failed"
    /\ wiring.RECT /\ wiring.NORM_RECT /\ wiring.IMAGE_SIZE

(* C4: after a successful setup every Process call with an empty rectangle   *)
(* input emits nothing and every call with a non-empty one emits exactly one *)
(* packet of the input's kind at the input timestamp, so the packets emitted *)
(* are as many as the non-empty rectangle inputs, at most one per timestamp. *)
C4_OnePacketPerRectRecord ==
    /\ Len(outputs) = Cardinality({ t \in DOMAIN inputs : RectRecordPresent(t) })
    /\ \A i \in DOMAIN outputs :
          /\ outputs[i].timestamp \in DOMAIN inputs
          /\ RectRecordPresent(outputs[i].timestamp)
          /\ outputs[i].type = out_type
    /\ \A i, j \in DOMAIN outputs :
          outputs[i].timestamp = outputs[j].timestamp => i = j

(* C5: in the absolute variant the output center is the input center plus    *)
(* (sx, sy) = (width * shift_x, height * shift_y) rotated by the effective   *)
(* rotation r; for r = 0 it is center + (sx, sy) and for a zero shift the    *)
(* center is unchanged.                                                      *)
C5_AbsoluteCenterShift ==
    \A i \in DOMAIN outputs :
        outputs[i].type = "Rect" =>
            LET in == SourceRect(outputs[i])
                out == outputs[i].value
                r == EffectiveRotation(outputs[i])
                sx == RMul(in.width, options_.shift_x)
                sy == RMul(in.height, options_.shift_y)
                c == FromInt(Cos(r))
                s == FromInt(Sin(r))
            IN  /\ out.x_center = RAdd(in.x_center, RSub(RMul(sx, c), RMul(sy, s)))
                /\ out.y_center = RAdd(in.y_center, RAdd(RMul(sx, s), RMul(sy, c)))
                /\ r = 0 => /\ out.x_center = RAdd(in.x_center, sx)
                            /\ out.y_center = RAdd(in.y_center, sy)
                /\ options_.shift_x = Zero /\ options_.shift_y = Zero =>
                       out.x_center = in.x_center /\ out.y_center = in.y_center

C5_Witness ==
    \E i \in DOMAIN outputs :
        /\ outputs[i].type = "Rect"
        /\ options_.has_rotation_degrees
        /\ Sin(EffectiveRotation(outputs[i])) # 0
        /\ options_.shift_x # Zero /\ options_.shift_y # Zero
        /\ SourceRect(outputs[i]).width # Zero
        /\ outputs[i].value.x_center # SourceRect(outputs[i]).x_center

(* C6: in the absolute variant squaring comes before scaling: the output is  *)
(* (max(w,h)*scale_x, max(w,h)*scale_y) under the long-side policy,          *)
(* (min(w,h)*scale_x, min(w,h)*scale_y) under the short-side policy and      *)
(* (w*scale_x, h*scale_y) under neither.                                     *)
C6_AbsoluteSquareThenScale ==
    \A i \in DOMAIN outputs :
        outputs[i].type = "Rect" =>
            LET w == SourceRect(outputs[i]).width
                h == SourceRect(outputs[i]).height
                out == outputs[i].value
                big == IF RLess(w, h) THEN h ELSE w
                small == IF RLess(w, h) THEN w ELSE h
            IN  /\ options_.square_long =>
                      /\ out.width = RMul(big, options_.scale_x)
                      /\ out.height = RMul(big, options_.scale_y)
                /\ ~options_.square_long /\ options_.square_short =>
                      /\ out.width = RMul(small, options_.scale_x)
                      /\ out.height = RMul(small, options_.scale_y)
                /\ ~options_.square_long /\ ~options_.square_short =>
                      /\ out.width = RMul(w, options_.scale_x)
                      /\ out.height = RMul(h, options_.scale_y)

C6_Witness ==
    \E i \in DOMAIN outputs :
        /\ outputs[i].type = "Rect"
        /\ options_.square_long
        /\ options_.scale_x # options_.scale_y
        /\ RLess(SourceRect(outputs[i]).height, SourceRect(outputs[i]).width)

(* C7 as stated: in the normalized variant, with a square policy and scale   *)
(* 1, width' * imgW = height' * imgH = L with L the max (long) or min        *)
(* (short) of width * imgW and height * imgH, and width' = height' only when *)
(* imgW = imgH.                                                              *)
SquarePolicy(o) == o.square_long \/ o.square_short

PixelSide(p) ==
    LET in == SourceRect(p)
        pw == RMul(in.width, FromInt(SourceSize(p)[1]))
        ph == RMul(in.height, FromInt(SourceSize(p)[2]))
        big == IF RLess(pw, ph) THEN ph ELSE pw
        small == IF RLess(pw, ph) THEN pw ELSE ph
    IN  IF options_.square_long THEN big ELSE small

SquaredInPixels(p) ==
    /\ RMul(p.value.width, FromInt(SourceSize(p)[1])) = PixelSide(p)
    /\ RMul(p.value.height, FromInt(SourceSize(p)[2])) = PixelSide(p)

UnitScale(o) == o.scale_x = One /\ o.scale_y = One

C7_Original ==
    \A i \in DOMAIN outputs :
        (/\ outputs[i].type = "NormalizedRect"
         /\ SquarePolicy(options_)
         /\ UnitScale(options_)) =>
            /\ SquaredInPixels(outputs[i])
            /\ outputs[i].value.width = outputs[i].value.height =>
                   SourceSize(outputs[i])[1] = SourceSize(outputs[i])[2]

(* C7 amended: as above, but width' = height' only when imgW = imgH or the   *)
(* squared pixel side L is 0.                                                *)
C7_NormalizedSquareInPixelSpace ==
    \A i \in DOMAIN outputs :
        (/\ outputs[i].type = "NormalizedRect"
         /\ SquarePolicy(options_)
         /\ UnitScale(options_)) =>
            /\ SquaredInPixels(outputs[i])
            /\ outputs[i].value.width = outputs[i].value.height =>
                   \/ SourceSize(outputs[i])[1] = SourceSize(outputs[i])[2]
                   \/ PixelSide(outputs[i]) = Zero

C7_Witness ==
    \E i \in DOMAIN outputs :
        /\ outputs[i].type = "NormalizedRect"
        /\ options_.square_long
        /\ UnitScale(options_)
        /\ SourceSize(outputs[i]) = <<100, 50>>
        /\ SourceRect(outputs[i]).width = Q(1, 5)
        /\ SourceRect(outputs[i]).height = Q(1, 10)
        /\ outputs[i].value.width = Q(1, 5)
        /\ outputs[i].value.height = Q(2, 5)

(* C8: once GetContract and Open have succeeded no Process call fails, for   *)
(* every rectangle, image size and combination of present and empty input    *)
(* packets; no error or crash state is reachable.                            *)
C8_ProcessNeverFails == status # "crashed"

(* C9: the transform is stateless: options_ is written only by Open, every   *)
(* emitted packet is determined by its own record and the configured         *)
(* options, and equal records give equal outputs wherever they occur in the  *)
(* sequence of records.                                                      *)
ExpectedValue(p) ==
    IF p.type = "Rect"
       THEN TransformRect(SourceRect(p), cfg)
       ELSE TransformNormalizedRect(SourceRect(p), SourceSize(p)[1],
                                    SourceSize(p)[2], cfg)

OutputsDependOnRecordOnly ==
    /\ \A i \in DOMAIN outputs : outputs[i].value = ExpectedValue(outputs[i])
    /\ \A i, j \in DOMAIN outputs :
          inputs[outputs[i].timestamp] = inputs[outputs[j].timestamp] =>
              outputs[i].value = outputs[j].value

C9_Stateless ==
    /\ []OutputsDependOnRecordOnly
    /\ [][options_' # options_ => status = "contract_ok"]_vars
    /\ [][status = "opened" => options_' = options_]_vars

C9_Witness ==
    /\ Len(outputs) = 2
    /\ inputs[1] = inputs[2]
    /\ outputs[1].value = outputs[2].value
    /\ RotationSet(options_)
    /\ SourceRect(outputs[1]).rotation # 0
    /\ options_ = cfg

(* C10 as stated: NormalizeRadians(a) is greater than -pi, at most pi, and   *)
(* congruent to a modulo 2 pi.                                               *)
C10_Original ==
    wrapped # <<>> =>
        /\ wrapped[1] > -M_PI
        /\ wrapped[1] <= M_PI
        /\ (wrapped[1] - angle) % (2 * M_PI) = 0

(* C10 amended: NormalizeRadians(a) is at least -pi, less than pi, and       *)
(* congruent to a modulo 2 pi.                                               *)
C10_WrapsIntoHalfOpenInterval ==
    wrapped # <<>> =>
        /\ wrapped[1] >= -M_PI
        /\ wrapped[1] < M_PI
        /\ (wrapped[1] - angle) % (2 * M_PI) = 0

C10_Witness ==
    /\ wrapped = <<-M_PI>>
    /\ angle = M_PI

====
